---- MODULE Spec2Model ----
(* A model of the Quantum RNG CLI (src/main.rs): one run of the program, from *)
(* Cli::parse() to process exit, with the terminal, the standard input and    *)
(* the remote service as nondeterministic environments.                        *)
EXTENDS Integers, Sequences, FiniteSets, TLC

VARIABLES
    pc,          \* position of the single task inside main and its callees
    command,     \* cli.command: Option<Commands>
    p_data_type, \* fetch_random_array's parameter data_type: Option<DataType>
    p_length,    \* fetch_random_array's parameter length: Option<u16>
    p_block_size,\* fetch_random_array's parameter block_size: Option<u16>
    data_type,   \* fetch_random_array's local data_type (None until its let has run)
    length,      \* fetch_random_array's local length (None until its let has run)
    block_size,  \* fetch_random_array's local block_size: Option<u16>
    input,       \* the String the last read_line filled
    retries,     \* invalid lines read so far by the running prompt loop
    url,         \* the url local of the fetch function that ran
    requests,    \* every url handed to reqwest::get, in order
    status,      \* response.status() of the received response
    body,        \* the body local: response.text()
    prompts,     \* the prompts shown to the user, in order
    out,         \* the lines printed to standard output, in order
    stderr,      \* the error main returned, as the runtime reports it
    exit_status  \* "running", "success" (0), "failure" (1: main returned Err), "panic" (101)

vars == <<pc, command, p_data_type, p_length, p_block_size, data_type, length,
          block_size, input, retries, url, requests, status, body, prompts,
          out, stderr, exit_status>>

----------------------------------------------------------------------------
(* Bounds of the model *)

\* invalid lines a prompt loop is offered before only valid lines arrive
MaxRetries == 2

----------------------------------------------------------------------------
(* Option<T>: None is the empty sequence, Some(v) the one-element sequence *)

None == <<>>
Some(v) == <<v>>
IsSome(o) == Len(o) = 1
Unwrap(o) == o[1]

RECURSIVE SeqToSet(_)
SeqToSet(s) == IF s = <<>> THEN {} ELSE {Head(s)} \cup SeqToSet(Tail(s))

----------------------------------------------------------------------------
(* enum DataType and DataType::to_lowercase *)

DataType == {"Uint8", "Uint16", "Hex16"}

to_lowercase(self) ==
    CASE self = "Uint8"  -> "uint8"
      [] self = "Uint16" -> "uint16"
      [] self = "Hex16"  -> "hex16"

API_URL == "https://qrng.anu.edu.au/API/jsonI.php"

----------------------------------------------------------------------------
(* Lines of standard input, as sequences of characters, and                  *)
(* input.trim().parse::<u16>()                                                *)

Digits == <<"0", "1", "2", "3", "4", "5", "6", "7", "8", "9">>
IsDigit(c) == \E i \in 1..10 : Digits[i] = c
DigitVal(c) == (CHOOSE i \in 1..10 : Digits[i] = c) - 1
IsWhitespace(c) == c \in {" ", "\n", "\r", "\t"}

\* str::trim: drop leading and trailing whitespace
RECURSIVE TrimStart(_)
TrimStart(s) ==
    IF s # <<>> /\ IsWhitespace(Head(s)) THEN TrimStart(Tail(s)) ELSE s
RECURSIVE TrimEnd(_)
TrimEnd(s) ==
    IF s # <<>> /\ IsWhitespace(s[Len(s)])
    THEN TrimEnd(SubSeq(s, 1, Len(s) - 1)) ELSE s
Trim(s) == TrimEnd(TrimStart(s))

U16_MAX == 65535

\* the digit loop of u16::from_str: checked multiply and add; a non-digit or
\* an overflow is an Err
RECURSIVE ParseDigits(_, _)
ParseDigits(s, acc) ==
    IF s = <<>> THEN [ok |-> TRUE, v |-> acc]
    ELSE IF ~IsDigit(Head(s)) THEN [ok |-> FALSE, v |-> 0]
    ELSE IF acc * 10 + DigitVal(Head(s)) > U16_MAX THEN [ok |-> FALSE, v |-> 0]
    ELSE ParseDigits(Tail(s), acc * 10 + DigitVal(Head(s)))

\* str::parse::<u16>: empty is an Err; one leading "+" is accepted, a "-" is
\* an invalid digit for an unsigned type; a lone sign is an Err
ParseU16(s) ==
    IF s = <<>> THEN [ok |-> FALSE, v |-> 0]
    ELSE IF Head(s) = "+"
         THEN IF Tail(s) = <<>> THEN [ok |-> FALSE, v |-> 0]
              ELSE ParseDigits(Tail(s), 0)
    ELSE ParseDigits(s, 0)

\* InRange with the lower end at 0: (0..=1024)
InRangeFromZero(n) == 0 <= n /\ n <= 1024

\* (1..=1024).contains(&n)
InRange(n) == 1 <= n /\ n <= 1024

\* the lines the user may type (read_line keeps the newline; <<>> is end of file)
InputLines ==
    { <<"1", "\n">>,
      <<"1", "0", "2", "4", "\n">>,
      <<" ", "+", "7", "\r", "\n">>,
      <<"0", "\n">>,
      <<"1", "0", "2", "5", "\n">>,
      <<"6", "5", "5", "3", "5", "\n">>,
      <<"6", "5", "5", "3", "6", "\n">>,
      <<"a", "b", "\n">>,
      <<"-", "1", "\n">>,
      <<"1", " ", "2", "\n">>,
      <<"\n">>,
      <<>> }

\* a line is accepted by the prompt loops when it parses and is in range
Accepted(line) ==
    LET r == ParseU16(Trim(line)) IN r.ok /\ InRange(r.v)

----------------------------------------------------------------------------
(* Response bodies as token sequences, and serde_json::from_str into a       *)
(* struct with the one field data: Vec<T> (unknown fields are ignored, a     *)
(* missing or repeated "data" is an Err, trailing text is an Err).           *)
(* Grammar covered: an object whose member values are scalars or flat arrays *)
(* of scalars; anything else is an Err.                                       *)

Tok(t, s, n) == [t |-> t, s |-> s, n |-> n]
P(s)   == Tok("p", s, 0)       \* punctuation
Str(s) == Tok("str", s, 0)     \* a JSON string "s"
Num(n) == Tok("num", "", n)    \* a non-negative integer literal
Neg(n) == Tok("num", "-", n)   \* a negative integer literal
Lit(s) == Tok("lit", s, 0)     \* true, false, null
Ws     == Tok("ws", " ", 0)    \* whitespace
Junk(s) == Tok("junk", s, 0)   \* text that is no JSON token

RECURSIVE StripWs(_)
StripWs(b) ==
    IF b = <<>> THEN <<>>
    ELSE IF Head(b).t = "ws" THEN StripWs(Tail(b))
    ELSE <<Head(b)>> \o StripWs(Tail(b))

IsScalar(tok) == tok.t \in {"str", "num", "lit"}
At(t, i) == IF i >= 1 /\ i <= Len(t) THEN t[i] ELSE Junk("")
Fail == [ok |-> FALSE, next |-> 0, isArray |-> FALSE, elems |-> <<>>]
FailObject == [ok |-> FALSE, next |-> 0, fields |-> <<>>]

\* the elements of an array after "[": scalar ("," scalar)* "]"
RECURSIVE ParseElems(_, _, _)
ParseElems(t, i, acc) ==
    IF ~IsScalar(At(t, i)) THEN Fail
    ELSE IF At(t, i + 1) = P(",") THEN ParseElems(t, i + 2, Append(acc, t[i]))
    ELSE IF At(t, i + 1) = P("]")
         THEN [ok |-> TRUE, next |-> i + 2, isArray |-> TRUE,
               elems |-> Append(acc, t[i])]
    ELSE Fail

\* a value: a scalar, or "[" "]", or "[" elements "]"
ParseValue(t, i) ==
    IF IsScalar(At(t, i))
    THEN [ok |-> TRUE, next |-> i + 1, isArray |-> FALSE, elems |-> <<t[i]>>]
    ELSE IF At(t, i) = P("[")
         THEN IF At(t, i + 1) = P("]")
              THEN [ok |-> TRUE, next |-> i + 2, isArray |-> TRUE, elems |-> <<>>]
              ELSE ParseElems(t, i + 1, <<>>)
    ELSE Fail

\* the members of an object after "{": key ":" value ("," key ":" value)* "}"
RECURSIVE ParseMembers(_, _, _)
\* after a member: "," and the next member, or "}"
AfterMember(t, j, fields) ==
    IF At(t, j) = P(",") THEN ParseMembers(t, j + 1, fields)
    ELSE IF At(t, j) = P("}") THEN [ok |-> TRUE, next |-> j + 1, fields |-> fields]
    ELSE FailObject
\* a member whose value parsed as v
AfterValue(t, fields, key, v) ==
    IF ~v.ok THEN FailObject
    ELSE AfterMember(t, v.next,
                     Append(fields, [key |-> key, isArray |-> v.isArray,
                                     elems |-> v.elems]))
ParseMembers(t, i, fields) ==
    IF At(t, i).t # "str" \/ At(t, i + 1) # P(":") THEN FailObject
    ELSE AfterValue(t, fields, t[i].s, ParseValue(t, i + 2))

\* a whole document: one object and nothing after it
WholeDocument(r, len) == [ok |-> r.ok /\ r.next = len + 1, fields |-> r.fields]
ParseTokens(t) ==
    WholeDocument(IF At(t, 1) # P("{") THEN FailObject
                  ELSE IF At(t, 2) = P("}") THEN [ok |-> TRUE, next |-> 3, fields |-> <<>>]
                  ELSE ParseMembers(t, 2, <<>>),
                  Len(t))
ParseObject(text) == ParseTokens(StripWs(text))

\* an element serde accepts for u8 / for String
IsU8(tok) == tok.t = "num" /\ tok.s = "" /\ tok.n <= 255
IsString(tok) == tok.t = "str"
\* T::deserialize for the element type of the struct being decoded
ElemOK(ty, tok) == IF ty = "u8" THEN IsU8(tok) ELSE IsString(tok)

\* the derived Deserialize of a struct { data: Vec<T> }: exactly one "data"
\* member, an array, every element a T
DataField(f, ty) ==
    IF f.isArray /\ \A j \in 1..Len(f.elems) : ElemOK(ty, f.elems[j])
    THEN [ok |-> TRUE, elems |-> f.elems]
    ELSE [ok |-> FALSE, elems |-> <<>>]
DataOf(fields, idx, ty) ==
    IF Cardinality(idx) # 1 THEN [ok |-> FALSE, elems |-> <<>>]
    ELSE DataField(fields[CHOOSE i \in idx : TRUE], ty)
DataIn(o, ty) ==
    IF ~o.ok THEN [ok |-> FALSE, elems |-> <<>>]
    ELSE DataOf(o.fields, {i \in 1..Len(o.fields) : o.fields[i].key = "data"}, ty)
DecodeData(text, ty) == DataIn(ParseObject(text), ty)

\* serde_json::from_str::<ApiResponse>: data: Vec<u8>
AsNumbers(d) == [ok |-> d.ok, data |-> [i \in 1..Len(d.elems) |-> d.elems[i].n]]
from_str_ApiResponse(text) == AsNumbers(DecodeData(text, "u8"))

\* serde_json::from_str::<ApiResponseHex>: data: Vec<String>
AsStrings(d) == [ok |-> d.ok, data |-> [i \in 1..Len(d.elems) |-> d.elems[i].s]]
from_str_ApiResponseHex(text) == AsStrings(DecodeData(text, "String"))

\* str::contains on the raw text
Contains(text, pat) ==
    \E i \in 1..(Len(text) - Len(pat) + 1) : SubSeq(text, i, i + Len(pat) - 1) = pat

\* the literal "\"success\":false"
SuccessFalse == <<Str("success"), P(":"), Lit("false")>>

----------------------------------------------------------------------------
(* The bodies the remote service may send *)

RECURSIVE Join(_)
Join(elems) ==
    IF Len(elems) <= 1 THEN elems
    ELSE <<Head(elems), P(",")>> \o Join(Tail(elems))

DataMember(elems) == <<Str("data"), P(":"), P("[")>> \o Join(elems) \o <<P("]")>>
Obj(members) == <<P("{")>> \o members \o <<P("}")>>
\* the service's own layout: {"type":..,"length":..,"data":[..],"success":true}
Full(ty, elems) ==
    Obj(<<Str("type"), P(":"), Str(ty), P(","), Str("length"), P(":"),
          Num(Len(elems)), P(",")>> \o DataMember(elems)
        \o <<P(","), Str("success"), P(":"), Lit("true")>>)

\* n numbers b, b+s, b+2s, ... as bytes
Arith(b, s, n) == [i \in 1..n |-> Num((b + (i - 1) * s) % 256)]

NumArrays ==
    { Arith(0, 1, 10), Arith(250, 1, 10), Arith(0, 49, 10), Arith(48, 0, 10),
      Arith(0, 1, 6), Arith(43, 1, 7), Arith(7, 1, 5) \o Arith(7, 1, 5),
      Arith(0, 1, 1), Arith(200, 13, 10),
      <<Num(9), Num(3), Num(9), Num(200)>>,
      <<Num(256)>>, <<Num(1), Num(65535)>>, <<Neg(1)>>,
      <<Num(5), Str("00ff")>> }

HexArrays ==
    { <<>>, <<Str("a1b2")>>, <<Str("ffff"), Str("00aa"), Str("ffff")>> }

Bodies ==
    { Obj(DataMember(a)) : a \in NumArrays \cup HexArrays }
    \cup { Full("uint8", Arith(0, 1, 10)), Full("uint16", <<Num(40000), Num(7)>>),
           Full("hex16", <<Str("beef"), Str("0001"), Str("cafe"), Str("0001")>>) }
    \cup { Obj(<<Str("success"), P(":"), Lit("false")>>),
           Obj(<<Str("success"), P(":"), Ws, Lit("false")>>),
           Obj(<<Str("success"), P(":"), Lit("false"), P(",")>>
               \o DataMember(<<Num(1), Num(2), Num(3)>>)),
           Obj(<<Str("success"), P(":"), Lit("true")>>),
           Obj(DataMember(<<Num(1)>>) \o <<P(",")>> \o DataMember(<<Num(2)>>)),
           Obj(<<Str("data"), P(":"), Str("ff")>>),
           Obj(<<Str("data"), P(":"), Lit("null")>>),
           Obj(DataMember(<<Num(1), Num(2)>>)) \o <<Junk("x")>>,
           <<P("{"), Str("data"), P(":"), P("["), Num(1), P(",")>>,
           <<Ws>> \o Obj(DataMember(<<Num(4), Num(4)>>)) \o <<Ws>>,
           <<Junk("<html>")>>,
           <<>> }

----------------------------------------------------------------------------
(* Terminal output, urls, statuses *)

\* one printed line: its text, and the value formatted into it
Line(msg) == [msg |-> msg, status |-> 0, nums |-> <<>>, strs |-> <<>>]
StatusLine(msg, st) == [msg |-> msg, status |-> st, nums |-> <<>>, strs |-> <<>>]
NumsLine(msg, v) == [msg |-> msg, status |-> 0, nums |-> v, strs |-> <<>>]
StrsLine(msg, v) == [msg |-> msg, status |-> 0, nums |-> <<>>, strs |-> v]

Param(k, s, n) == [k |-> k, s |-> s, n |-> n]
NoUrl == [base |-> "", query |-> <<>>]

\* LottoUrl asking for the six numbers it prints instead of ten
LottoUrlSix ==
    [base |-> API_URL,
     query |-> <<Param("length", "", 6), Param("type", "uint8", 0)>>]

\* format!("{API_URL}?length=10&type=uint8")
LottoUrl ==
    [base |-> API_URL,
     query |-> <<Param("length", "", 10), Param("type", "uint8", 0)>>]

\* BuildUrl without the push of "&size={}"
BuildUrlNoSize(dt, len, bs) ==
    [base |-> API_URL,
     query |-> <<Param("length", "", len), Param("type", to_lowercase(dt), 0)>>]

\* format!("{API_URL}?length={length}&type={}", data_type_str), then
\* "&size={}" pushed when block_size is Some
BuildUrl(dt, len, bs) ==
    LET data_type_str == to_lowercase(dt)
        u == <<Param("length", "", len), Param("type", data_type_str, 0)>>
    IN [base |-> API_URL,
        query |-> IF IsSome(bs) THEN Append(u, Param("size", "", Unwrap(bs))) ELSE u]

\* is_success taking every status below 400 for a success
is_success_below_400(st) == st < 400

\* StatusCode::is_success, StatusCode::is_server_error
is_success(st) == 200 <= st /\ st < 300
is_server_error(st) == 500 <= st /\ st < 600

Statuses == {100, 200, 299, 300, 404, 429, 499, 500, 503, 599}

\* the values a u16 flag of the command line may carry
CliU16 == {0, 1, 1024, 1025}

\* what Cli::parse() may return
NoArgs(c) == [cmd |-> c, data_type |-> None, length |-> None, block_size |-> None]
OptionOf(S) == {None} \cup {Some(v) : v \in S}
CliCommands ==
    { NoArgs("Lotto"), NoArgs("None") }
    \cup [cmd : {"RandomArray"}, data_type : OptionOf(DataType),
          length : OptionOf(CliU16), block_size : OptionOf(CliU16)]

----------------------------------------------------------------------------
(* The lottery post-processing *)

\* |n| (n % 49) + 1 on u8
Remap(n) == ((n % 49) + 1) % 256

Min(a, b) == IF a < b THEN a ELSE b

\* Take without the take(6): the whole set
TakeAll(S) == {S}

\* .collect::<HashSet<_>>().into_iter().take(6): the elements the set may
\* yield first, every choice of min(6, |S|) of them
Take(S) == {T \in SUBSET S : Cardinality(T) = Min(6, Cardinality(S))}

\* orders in which the iterator may yield the elements of T: the rotations of
\* the ascending and of the descending listing (a sample of the k! orders;
\* the vector after sort() depends on T alone)
RECURSIVE Ascending(_)
Ascending(T) ==
    IF T = {} THEN <<>>
    ELSE LET m == CHOOSE x \in T : \A y \in T : x <= y
         IN <<m>> \o Ascending(T \ {m})
Reverse(s) == [i \in 1..Len(s) |-> s[Len(s) + 1 - i]]
Rotate(s, r) == [i \in 1..Len(s) |-> s[((i - 1 + r) % Len(s)) + 1]]
Orders(T) ==
    IF T = {} THEN {<<>>}
    ELSE UNION {{Rotate(Ascending(T), r), Rotate(Reverse(Ascending(T)), r)} :
                r \in 0..(Cardinality(T) - 1)}

\* slice::sort, ascending
RECURSIVE Insert(_, _)
Insert(x, s) ==
    IF s = <<>> THEN <<x>>
    ELSE IF x <= Head(s) THEN <<x>> \o s
    ELSE <<Head(s)>> \o Insert(x, Tail(s))
\* Sort without the sort(): the vector as the set yielded it
SortSkipped(s) == s

RECURSIVE Sort(_)
Sort(s) == IF s = <<>> THEN <<>> ELSE Insert(Head(s), Sort(Tail(s)))

----------------------------------------------------------------------------
(* The run *)

Init ==
    /\ pc = "main"
    /\ command \in CliCommands
    /\ p_data_type = None /\ p_length = None /\ p_block_size = None
    /\ data_type = None /\ length = None /\ block_size = None
    /\ input = <<>> /\ retries = 0
    /\ url = NoUrl /\ requests = <<>> /\ status = 0 /\ body = <<>>
    /\ prompts = <<>> /\ out = <<>> /\ stderr = <<>>
    /\ exit_status = "running"

params == <<p_data_type, p_length, p_block_size>>
locals == <<data_type, length, block_size>>
net == <<url, requests, status, body>>

\* main returns Err(e): the runtime prints it and the process exits with 1
Fatal(e) ==
    /\ pc' = "exited"
    /\ exit_status' = "failure"
    /\ stderr' = Append(stderr, e)

\* an unwrap() on Err: the process aborts with a panic (101)
Panic(e) ==
    /\ pc' = "exited"
    /\ exit_status' = "panic"
    /\ stderr' = Append(stderr, e)

\* main: match cli.command
MainLotto ==
    /\ pc = "main" /\ command.cmd = "Lotto"
    /\ pc' = "lotto_get"
    /\ UNCHANGED <<command, params, locals, input, retries, net, prompts, out,
                   stderr, exit_status>>

MainRandomArray ==
    /\ pc = "main" /\ command.cmd = "RandomArray"
    /\ p_data_type' = command.data_type
    /\ p_length' = command.length
    /\ p_block_size' = command.block_size
    /\ pc' = "fra_data_type"
    /\ UNCHANGED <<command, locals, input, retries, net, prompts, out, stderr,
                   exit_status>>

MainInteractive ==
    /\ pc = "main" /\ command.cmd = "None"
    /\ pc' = "menu"
    /\ UNCHANGED <<command, params, locals, input, retries, net, prompts, out,
                   stderr, exit_status>>

\* interactive_mode: the Select over "Lotto" / "Random Array"; a cancelled
\* prompt is an Err that ? hands to main
InteractiveMode(choice) ==
    /\ pc = "menu"
    /\ prompts' = Append(prompts, "Choose an option:")
    /\ \/ /\ choice = "Lotto"
          /\ out' = Append(out, Line("Fetching Lotto numbers..."))
          /\ pc' = "lotto_get"
          /\ UNCHANGED <<params, stderr, exit_status>>
       \/ /\ choice = "Random Array"
          /\ out' = Append(out, Line("Fetching Random Array..."))
          /\ p_data_type' = None /\ p_length' = None /\ p_block_size' = None
          /\ pc' = "fra_data_type"
          /\ UNCHANGED <<stderr, exit_status>>
       \/ /\ choice = "cancelled"
          /\ Fatal(Line("InquireError"))
          /\ UNCHANGED <<params, out>>
    /\ UNCHANGED <<command, locals, input, retries, net>>

----------------------------------------------------------------------------
(* fetch_random_array: parameter resolution *)

\* data_type.unwrap_or_else(..) with Some
FraDataTypeGiven ==
    /\ pc = "fra_data_type" /\ IsSome(p_data_type)
    /\ data_type' = p_data_type
    /\ pc' = "fra_length"
    /\ UNCHANGED <<command, params, length, block_size, input, retries, net,
                   prompts, out, stderr, exit_status>>

\* the variant a Select choice stands for
ChoiceToDataType(choice) ==
    CASE choice = "uint8"  -> "Uint8"
      [] choice = "uint16" -> "Uint16"
      [] choice = "hex16"  -> "Hex16"

\* prompt_for_data_type: the Select; a cancelled prompt makes unwrap() panic
PromptForDataType(choice) ==
    /\ pc = "fra_data_type" /\ ~IsSome(p_data_type)
    /\ prompts' = Append(prompts, "Choose data type:")
    /\ \/ /\ choice \in {"uint8", "uint16", "hex16"}
          /\ data_type' = Some(ChoiceToDataType(choice))
          /\ pc' = "fra_length"
          /\ UNCHANGED <<stderr, exit_status>>
       \/ /\ choice = "cancelled"
          /\ Panic(Line("InquireError"))
          /\ UNCHANGED data_type
    /\ UNCHANGED <<command, params, length, block_size, input, retries, net, out>>

\* length.unwrap_or_else(..) with Some
FraLengthGiven ==
    /\ pc = "fra_length" /\ IsSome(p_length)
    /\ length' = p_length
    /\ pc' = "fra_block_size"
    /\ UNCHANGED <<command, params, data_type, block_size, input, retries, net,
                   prompts, out, stderr, exit_status>>

\* prompt_for_length up to its loop
PromptForLengthEnter ==
    /\ pc = "fra_length" /\ ~IsSome(p_length)
    /\ out' = Append(out, Line("Enter array length (1-1024):"))
    /\ prompts' = Append(prompts, "Enter array length (1-1024):")
    /\ retries' = 0
    /\ pc' = "prompt_for_length"
    /\ UNCHANGED <<command, params, locals, input, net, stderr, exit_status>>

\* what one pass of a prompt loop makes of its line: Some(n) returns n, None
\* prints the complaint and loops
LoopResult(line) ==
    LET r == ParseU16(Trim(line))
    IN IF r.ok /\ InRange(r.v) THEN Some(r.v) ELSE None

\* one pass of prompt_for_length's loop
PromptForLengthRead(line) ==
    /\ pc = "prompt_for_length"
    /\ Accepted(line) \/ retries < MaxRetries
    /\ input' = line
    /\ IF IsSome(LoopResult(line))
       THEN /\ length' = LoopResult(line)
            /\ pc' = "fra_block_size"
            /\ UNCHANGED <<out, retries>>
       ELSE /\ out' = Append(out, Line("Invalid input. Enter a number between 1 and 1024."))
            /\ retries' = retries + 1
            /\ UNCHANGED <<pc, length>>
    /\ UNCHANGED <<command, params, data_type, block_size, net, prompts, stderr,
                   exit_status>>

\* IsHex16 matching every 16-bit type
IsHex16OrUint16(dt) == dt \in {"Hex16", "Uint16"}

\* matches!(data_type, DataType::Hex16)
IsHex16(dt) == dt = "Hex16"

\* the Hex16 branch with block_size Some
FraBlockSizeGiven ==
    /\ pc = "fra_block_size" /\ IsHex16(Unwrap(data_type)) /\ IsSome(p_block_size)
    /\ block_size' = Some(Unwrap(p_block_size))
    /\ pc' = "fra_get"
    /\ UNCHANGED <<command, params, data_type, length, input, retries, net,
                   prompts, out, stderr, exit_status>>

\* the else branch: None, whatever block_size was passed
FraBlockSizeNone ==
    /\ pc = "fra_block_size" /\ ~IsHex16(Unwrap(data_type))
    /\ block_size' = None
    /\ pc' = "fra_get"
    /\ UNCHANGED <<command, params, data_type, length, input, retries, net,
                   prompts, out, stderr, exit_status>>

\* prompt_for_block_size up to its loop
PromptForBlockSizeEnter ==
    /\ pc = "fra_block_size" /\ IsHex16(Unwrap(data_type)) /\ ~IsSome(p_block_size)
    /\ out' = Append(out, Line("Enter block size (1-1024):"))
    /\ prompts' = Append(prompts, "Enter block size (1-1024):")
    /\ retries' = 0
    /\ pc' = "prompt_for_block_size"
    /\ UNCHANGED <<command, params, locals, input, net, stderr, exit_status>>

\* one pass of prompt_for_block_size's loop
PromptForBlockSizeRead(line) ==
    /\ pc = "prompt_for_block_size"
    /\ Accepted(line) \/ retries < MaxRetries
    /\ input' = line
    /\ IF IsSome(LoopResult(line))
       THEN /\ block_size' = Some(Unwrap(LoopResult(line)))
            /\ pc' = "fra_get"
            /\ UNCHANGED <<out, retries>>
       ELSE /\ out' = Append(out, Line("Invalid input. Enter a number between 1 and 1024."))
            /\ retries' = retries + 1
            /\ UNCHANGED <<pc, block_size>>
    /\ UNCHANGED <<command, params, data_type, length, net, prompts, stderr,
                   exit_status>>

----------------------------------------------------------------------------
(* fetch_random_array: the request and the response *)

\* reqwest::get(&url).await? : a transport error, or a response with a status
FraGet(reply) ==
    /\ pc = "fra_get"
    /\ url' = BuildUrl(Unwrap(data_type), Unwrap(length), block_size)
    /\ requests' = Append(requests, url')
    /\ \/ /\ reply = 0
          /\ Fatal(Line("reqwest::Error"))
          /\ UNCHANGED status
       \/ /\ reply \in Statuses
          /\ status' = reply
          /\ pc' = "fra_status"
          /\ UNCHANGED <<stderr, exit_status>>
    /\ UNCHANGED <<command, params, locals, input, retries, body, prompts, out>>

\* if !response.status().is_success() { return Err(..) }
FraStatusError ==
    /\ pc = "fra_status" /\ ~is_success(status)
    /\ Fatal(StatusLine("Failed to fetch data. Status: {}", status))
    /\ UNCHANGED <<command, params, locals, input, retries, net, prompts, out>>

\* response.text().await? : a transport error, or the body
FraText(reply) ==
    /\ pc = "fra_status" /\ is_success(status)
    /\ \/ /\ reply = <<Junk("reqwest::Error")>>
          /\ Fatal(Line("reqwest::Error"))
          /\ UNCHANGED body
       \/ /\ reply \in Bodies
          /\ body' = reply
          /\ pc' = "fra_decode"
          /\ UNCHANGED <<stderr, exit_status>>
    /\ UNCHANGED <<command, params, locals, input, retries, url, requests,
                   status, prompts, out>>

\* DecodeErrorLine with the two messages exchanged
DecodeErrorLineSwapped(text) ==
    IF Contains(text, SuccessFalse)
    THEN Line("Error: Failed to parse the response.")
    ELSE Line("Error: Rate limit reached or other API issue.")

\* the Err arm of the match on the decoded response
DecodeErrorLine(text) ==
    IF Contains(text, SuccessFalse)
    THEN Line("Error: Rate limit reached or other API issue.")
    ELSE Line("Error: Failed to parse the response.")

\* serde_json::from_str::<ApiResponseHex>(&body) and the match on it
FraDecode ==
    /\ pc = "fra_decode"
    /\ LET api_response == from_str_ApiResponseHex(body)
       IN out' = Append(out, IF api_response.ok
                             THEN StrsLine("Random Array: {:?}", api_response.data)
                             ELSE DecodeErrorLine(body))
    /\ pc' = "wait_for_exit"
    /\ UNCHANGED <<command, params, locals, input, retries, net, prompts,
                   stderr, exit_status>>

----------------------------------------------------------------------------
(* fetch_lotto_numbers *)

\* the intention line, the sleep, and reqwest::get(&url).await?
LottoGet(reply) ==
    /\ pc = "lotto_get"
    /\ out' = Append(out, Line("Focus on your intention..."))
    /\ url' = LottoUrl
    /\ requests' = Append(requests, url')
    /\ \/ /\ reply = 0
          /\ Fatal(Line("reqwest::Error"))
          /\ UNCHANGED status
       \/ /\ reply \in Statuses
          /\ status' = reply
          /\ pc' = "lotto_status"
          /\ UNCHANGED <<stderr, exit_status>>
    /\ UNCHANGED <<command, params, locals, input, retries, body, prompts>>

\* the line printed for a status that is no success
LottoStatusLine(st) ==
    IF is_server_error(st)
    THEN Line("Error: Server issue, please try again later.")
    ELSE StatusLine("Error: Failed to fetch data. Status: {}", st)

\* if !response.status().is_success() { println!(..); return Ok(()) }
LottoStatusError ==
    /\ pc = "lotto_status" /\ ~is_success(status)
    /\ out' = Append(out, LottoStatusLine(status))
    /\ pc' = "wait_for_exit"
    /\ UNCHANGED <<command, params, locals, input, retries, net, prompts,
                   stderr, exit_status>>

\* response.text().await?
LottoText(reply) ==
    /\ pc = "lotto_status" /\ is_success(status)
    /\ \/ /\ reply = <<Junk("reqwest::Error")>>
          /\ Fatal(Line("reqwest::Error"))
          /\ UNCHANGED body
       \/ /\ reply \in Bodies
          /\ body' = reply
          /\ pc' = "lotto_decode"
          /\ UNCHANGED <<stderr, exit_status>>
    /\ UNCHANGED <<command, params, locals, input, retries, url, requests,
                   status, prompts, out>>

\* response.data.into_iter().map(|n| (n % 49) + 1).collect()
MapNumbers(data) == [i \in 1..Len(data) |-> Remap(data[i])]

\* the vectors sorted_numbers may be: the set's first six, in any order it
\* yields them, sorted
SortedNumbers(data) ==
    { Sort(unique_numbers) :
        unique_numbers \in UNION {Orders(T) : T \in Take(SeqToSet(MapNumbers(data)))} }

\* serde_json::from_str::<ApiResponse>(&body) and the match on it
LottoDecode ==
    /\ pc = "lotto_decode"
    /\ LET api_response == from_str_ApiResponse(body)
       IN IF api_response.ok
          THEN \E sorted_numbers \in SortedNumbers(api_response.data) :
                   out' = Append(out, NumsLine("Lotto Numbers: {:?}", sorted_numbers))
          ELSE out' = Append(out, DecodeErrorLine(body))
    /\ pc' = "wait_for_exit"
    /\ UNCHANGED <<command, params, locals, input, retries, net, prompts,
                   stderr, exit_status>>

----------------------------------------------------------------------------
(* main after the match *)

\* the line offered to wait_for_exit: Enter
ExitLines == { <<"\n">> }

\* wait_for_exit, then Ok(())
WaitForExit(line) ==
    /\ pc = "wait_for_exit"
    /\ out' = Append(out, Line("Press Enter to exit..."))
    /\ input' = line
    /\ pc' = "exited"
    /\ exit_status' = "success"
    /\ UNCHANGED <<command, params, locals, retries, net, prompts, stderr>>

Next ==
    \/ MainLotto
    \/ MainRandomArray
    \/ MainInteractive
    \/ \E choice \in {"Lotto", "Random Array", "cancelled"} : InteractiveMode(choice)
    \/ FraDataTypeGiven
    \/ \E choice \in {"uint8", "uint16", "hex16", "cancelled"} : PromptForDataType(choice)
    \/ FraLengthGiven
    \/ PromptForLengthEnter
    \/ \E line \in InputLines : PromptForLengthRead(line)
    \/ FraBlockSizeGiven
    \/ FraBlockSizeNone
    \/ PromptForBlockSizeEnter
    \/ \E line \in InputLines : PromptForBlockSizeRead(line)
    \/ \E reply \in Statuses \cup {0} : FraGet(reply)
    \/ FraStatusError
    \/ \E reply \in Bodies \cup {<<Junk("reqwest::Error")>>} : FraText(reply)
    \/ FraDecode
    \/ \E reply \in Statuses \cup {0} : LottoGet(reply)
    \/ LottoStatusError
    \/ \E reply \in Bodies \cup {<<Junk("reqwest::Error")>>} : LottoText(reply)
    \/ LottoDecode
    \/ \E line \in ExitLines : WaitForExit(line)

Spec == Init /\ [][Next]_vars

----------------------------------------------------------------------------
(* Properties *)

HasLine(m) == \E i \in 1..Len(out) : out[i].msg = m
HasParam(u, k) == \E i \in 1..Len(u.query) : u.query[i].k = k

\* the run went through fetch_lotto_numbers / issued fetch_random_array's request
LottoPath == HasLine("Focus on your intention...")
ArrayRequested == requests # <<>> /\ IsSome(data_type)

\* the function returned to main, or main has ended
Returned == pc \in {"wait_for_exit", "exited"}
\* the function ran through its match on the decoded body
Decoded == Returned /\ is_success(status) /\ exit_status \in {"running", "success"}

ErrorMessages ==
    { "Error: Server issue, please try again later.",
      "Error: Failed to fetch data. Status: {}",
      "Error: Rate limit reached or other API issue.",
      "Error: Failed to parse the response." }
NoErrorReported ==
    /\ stderr = <<>>
    /\ \A i \in 1..Len(out) : out[i].msg \notin ErrorMessages
    /\ exit_status \in {"running", "success"}

\* main ended through wait_for_exit with Ok(())
EndsWithSuccess ==
    pc = "exited" =>
        /\ exit_status = "success"
        /\ out[Len(out)].msg = "Press Enter to exit..."

\* C1: on the generic array path the requested url carries length=<length>
\* and type=<the data type's lowercase name>, and carries a size parameter
\* exactly when the data type is Hex16 (then the resolved block size); a
\* block size supplied with Uint8 or Uint16 never reaches the url.
C1_UrlParameters ==
    ArrayRequested =>
        LET u == requests[1]
            dt == Unwrap(data_type)
        IN /\ \E i \in 1..Len(u.query) :
                  u.query[i].k = "length" /\ u.query[i].n = Unwrap(length)
           /\ \E i \in 1..Len(u.query) :
                  /\ u.query[i].k = "type"
                  /\ u.query[i].s = (IF dt = "Uint8" THEN "uint8"
                                     ELSE IF dt = "Uint16" THEN "uint16" ELSE "hex16")
           /\ HasParam(u, "size") <=> dt = "Hex16"
           /\ \A i \in 1..Len(u.query) :
                  u.query[i].k = "size" => Some(u.query[i].n) = block_size
           /\ dt # "Hex16" /\ IsSome(p_block_size) => ~HasParam(u, "size")

\* a request for Uint16 made although a block size was supplied
C1_Witness ==
    /\ ArrayRequested
    /\ data_type = Some("Uint16")
    /\ p_block_size = Some(1024)
    /\ ~HasParam(requests[1], "size")

\* the printed lottery lines
LottoLines == {i \in 1..Len(out) : out[i].msg = "Lotto Numbers: {:?}"}
\* the values the lottery path fetched
Fetched == from_str_ApiResponse(body).data
Remapped == {(Fetched[k] % 49) + 1 : k \in 1..Len(Fetched)}

RejectedLines ==
    { <<"0", "\n">>, <<"1", "0", "2", "5", "\n">>, <<"6", "5", "5", "3", "5", "\n">>,
      <<"6", "5", "5", "3", "6", "\n">>, <<"a", "b", "\n">>, <<"-", "1", "\n">>,
      <<"1", " ", "2", "\n">>, <<"\n">>, <<>> }
InvalidInput == Line("Invalid input. Enter a number between 1 and 1024.")

\* one pass of prompt_for_length on the line it read
LengthPass ==
    pc = "prompt_for_length" =>
        LET r == ParseU16(Trim(input'))
        IN IF r.ok /\ 1 <= r.v /\ r.v <= 1024 /\ input' \notin RejectedLines
           THEN pc' = "fra_block_size" /\ length' = Some(r.v) /\ out' = out
           ELSE /\ pc' = "prompt_for_length" /\ length' = None
                /\ out' = Append(out, InvalidInput)

\* one pass of prompt_for_block_size on the line it read
BlockSizePass ==
    pc = "prompt_for_block_size" =>
        LET r == ParseU16(Trim(input'))
        IN IF r.ok /\ 1 <= r.v /\ r.v <= 1024 /\ input' \notin RejectedLines
           THEN pc' = "fra_get" /\ block_size' = Some(r.v) /\ out' = out
           ELSE /\ pc' = "prompt_for_block_size" /\ block_size' = None
                /\ out' = Append(out, InvalidInput)

\* C4: each pass of the length loop and of the block-size loop either reads
\* a line that parses as a u16 in 1..1024 and returns that value, or prints
\* the complaint and stays in the loop; no value outside 1..1024 is returned.
C4_PromptLoops == [][LengthPass /\ BlockSizePass]_vars

\* both loops returned after rejected lines
C4_Witness ==
    /\ pc = "fra_get"
    /\ retries >= 1
    /\ block_size = Some(7)
    /\ length = Some(1024)
    /\ p_length = None /\ p_block_size = None
    /\ Cardinality({i \in 1..Len(out) : out[i] = InvalidInput}) >= 3

\* the status of the received response was looked at
StatusChecked == status # 0 /\ pc \notin {"lotto_status", "fra_status"}

\* C5: a status that is no success is printed and survived on the lottery
\* path (the server-error line for 5xx, the status line otherwise; the run
\* goes on to wait_for_exit and ends with success), and is fatal on the
\* generic array path (the error carries the status, the process ends with
\* failure, wait_for_exit is not reached and no array is printed).
C5_StatusAsymmetry ==
    StatusChecked /\ ~(200 <= status /\ status < 300) =>
        /\ LottoPath =>
              /\ Returned
              /\ IF 500 <= status /\ status < 600
                 THEN HasLine("Error: Server issue, please try again later.")
                 ELSE \E i \in 1..Len(out) :
                          /\ out[i].msg = "Error: Failed to fetch data. Status: {}"
                          /\ out[i].status = status
              /\ LottoLines = {}
              /\ stderr = <<>>
              /\ EndsWithSuccess
        /\ ArrayRequested =>
              /\ pc = "exited"
              /\ exit_status = "failure"
              /\ stderr = <<StatusLine("Failed to fetch data. Status: {}", status)>>
              /\ ~HasLine("Press Enter to exit...")
              /\ ~HasLine("Random Array: {:?}")

\* the generic array path ended by a 503
C5_Witness ==
    /\ ArrayRequested
    /\ status = 503
    /\ exit_status = "failure"

HasShape(dt, tok) ==
    IF dt = "Uint8" THEN tok.t = "num" /\ tok.s = "" /\ tok.n <= 255
    ELSE IF dt = "Uint16" THEN tok.t = "num" /\ tok.s = "" /\ tok.n <= 65535
    ELSE tok.t = "str"
\* the "data" members of the body
DataMembers ==
    LET o == ParseObject(body)
    IN IF o.ok THEN {i \in 1..Len(o.fields) : o.fields[i].key = "data"} ELSE {}
\* the body is {"data": [...]} of the shape of data type dt, and its elements
Received(dt) ==
    IF Cardinality(DataMembers) # 1 THEN [ok |-> FALSE, elems |-> <<>>]
    ELSE LET f == ParseObject(body).fields[CHOOSE i \in DataMembers : TRUE]
         IN [ok |-> f.isArray /\ \A j \in 1..Len(f.elems) : HasShape(dt, f.elems[j]),
             elems |-> f.elems]

\* C7: on the generic array path, for every data type, a success status
\* with a body whose data has the type's shape prints the received values
\* unchanged and in order.
C7_ArrayPassThrough ==
    Decoded /\ ArrayRequested /\ Received(Unwrap(data_type)).ok =>
        LET elems == Received(Unwrap(data_type)).elems
        IN \E i \in 1..Len(out) :
               /\ out[i].msg = "Random Array: {:?}"
               /\ Len(out[i].strs) + Len(out[i].nums) = Len(elems)
               /\ \A j \in 1..Len(out[i].strs) : out[i].strs[j] = elems[j].s
               /\ \A j \in 1..Len(out[i].nums) : out[i].nums[j] = elems[j].n

\* C8: every request of the generic array path carries a length in 1..1024
\* and, when it carries a size, a size in 1..1024.
C8_RequestBounds ==
    ArrayRequested =>
        \A i \in 1..Len(requests[1].query) :
            requests[1].query[i].k \in {"length", "size"} =>
                1 <= requests[1].query[i].n /\ requests[1].query[i].n <= 1024

\* once the request is out nothing is prompted, resolved or requested again
AfterRequest ==
    requests # <<>> =>
        /\ requests' = requests
        /\ prompts' = prompts
        /\ <<data_type, length, block_size>>' = <<data_type, length, block_size>>

\* at most one request; the array request goes out with its parameters
\* resolved; the lottery request is length=10, type=uint8
OneRequest ==
    /\ Len(requests) <= 1
    /\ ArrayRequested =>
          /\ IsSome(length)
          /\ Unwrap(data_type) = "Hex16" => IsSome(block_size)
    /\ LottoPath =>
          /\ Len(requests) = 1
          /\ requests[1].base = API_URL
          /\ Len(requests[1].query) = 2
          /\ requests[1].query[1] = [k |-> "length", s |-> "", n |-> 10]
          /\ requests[1].query[2] = [k |-> "type", s |-> "uint8", n |-> 0]

ExpectedPrompts ==
    (IF p_data_type = None THEN <<"Choose data type:">> ELSE <<>>)
    \o (IF p_length = None THEN <<"Enter array length (1-1024):">> ELSE <<>>)
    \o (IF data_type = Some("Hex16") /\ p_block_size = None
        THEN <<"Enter block size (1-1024):">> ELSE <<>>)

\* C10: the resolver prompts only for what was not supplied, in the order
\* data type, length, block size; a supplied value is used as it is; the
\* block-size prompt runs only for Hex16 without a supplied block size.
C10_PromptOrder ==
    ArrayRequested =>
        /\ prompts = (IF command.cmd = "None" THEN <<"Choose an option:">> ELSE <<>>)
                     \o ExpectedPrompts
        /\ IsSome(p_data_type) => data_type = p_data_type
        /\ IsSome(p_length) => length = p_length
        /\ IsSome(p_block_size) /\ data_type = Some("Hex16") => block_size = p_block_size
        /\ command.cmd = "None" /\ data_type # Some("Hex16") =>
              prompts = <<"Choose an option:", "Choose data type:",
                          "Enter array length (1-1024):">>

\* the menu, then Uint16 chosen and a length typed: two prompts and the request
C10_Witness ==
    /\ ArrayRequested
    /\ command.cmd = "None"
    /\ data_type = Some("Uint16")
    /\ prompts = <<"Choose an option:", "Choose data type:",
                   "Enter array length (1-1024):">>

====
